---- MODULE Spec2Model ----
(***************************************************************************)
(* A model of app.py, the SDG visualization dashboard: the memoized CSV    *)
(* load and left merge, the country/indicator filter, the year coercion    *)
(* and target overlay of the literacy trend chart, and the three views of  *)
(* main(), one script run per user interaction.                            *)
(*                                                                         *)
(* A data frame is [columns |-> sequence of names, rows |-> sequence of    *)
(* rows], a row being a sequence of cells aligned with the columns.  Id    *)
(* and label cells are strings, VALUE cells integers, YEAR cells the       *)
(* tagged records Str/Num/NaN below.  A raising call is the record         *)
(* [ok |-> FALSE, err |-> exception name, ...].                            *)
(***************************************************************************)
EXTENDS Integers, Sequences, FiniteSets, TLC

VARIABLES
    valuesFile,     \* SDG_DATA_NATIONAL.csv on disk
    labelsFile,     \* SDG_LABEL.csv on disk
    cache,          \* st.cache_data's entry for load_data
    bodyRuns,       \* executions of load_data's body started
    loaded,         \* executions of load_data's body completed
    served,         \* the last load_data call was answered from the cache
    firstTable,     \* the table the first successful load_data call returned
    data_merged,    \* main's local table at the end of the last run
    section,        \* the sidebar radio's value in the last run
    region_choice,  \* widget value / catalog input
    indicator_label,\* widget value / catalog input
    indicator_code, \* the code the last run filtered by
    chosen,         \* chosen_countries of the last run
    plot_input,     \* the frame the last run passed to its chart code
    df_filtered,    \* the filtered frame at the end of the last run
    fig,            \* the chart handed to st.plotly_chart
    outcome,        \* what the last run showed
    err             \* the exception that ended the last run, "" if none

vars == <<valuesFile, labelsFile, cache, bodyRuns, loaded, served, firstTable, data_merged,
          section, region_choice, indicator_label, indicator_code, chosen,
          plot_input, df_filtered, fig, outcome, err>>

----------------------------------------------------------------------------
(* Bounds *)

MaxValueRows == 2
MaxLabelRows == 2
MaxSeriesRows == 3
PickWidth == 1
MaxBodyRuns == 2

----------------------------------------------------------------------------
(* Cells *)

Str(s) == [t |-> "str", s |-> s, n |-> 0]
Num(n) == [t |-> "num", s |-> <<>>, n |-> n]
NaN == [t |-> "nan", s |-> <<>>, n |-> 0]
NA == "NaN"

Digits == <<"0", "1", "2", "3", "4", "5", "6", "7", "8", "9">>

IsDigit(c) == \E i \in 1..10 : Digits[i] = c

DigitValue(c) == (CHOOSE i \in 1..10 : Digits[i] = c) - 1

RECURSIVE ParseDigits(_, _)
ParseDigits(s, acc) ==
    IF s = <<>> THEN acc
    ELSE ParseDigits(Tail(s), acc * 10 + DigitValue(Head(s)))

\* The text parses as a number: a non-empty run of decimal digits.
IsNumericText(s) == s # <<>> /\ \A i \in 1..Len(s) : IsDigit(s[i])

\* pd.to_numeric(..., errors="coerce") on one cell
ToNumericCell(c) ==
    IF c.t = "str"
    THEN IF IsNumericText(c.s) THEN Num(ParseDigits(c.s, 0)) ELSE NaN
    ELSE c

----------------------------------------------------------------------------
(* Frames *)

EmptyFrame == [columns |-> <<>>, rows |-> <<>>]

HasColumn(df, name) == \E i \in 1..Len(df.columns) : df.columns[i] = name

ColIndex(df, name) == CHOOSE i \in 1..Len(df.columns) : df.columns[i] = name

Cell(df, r, name) == df.rows[r][ColIndex(df, name)]

\* str.upper() on the column names the sources use
Upper(name) ==
    CASE name = "country_id" -> "COUNTRY_ID"
      [] name = "indicator_id" -> "INDICATOR_ID"
      [] name = "year" -> "YEAR"
      [] name = "value" -> "VALUE"
      [] name = "indicator_label_en" -> "INDICATOR_LABEL_EN"
      [] OTHER -> name

UpperColumns(df) ==
    [df EXCEPT !.columns = [i \in 1..Len(df.columns) |-> Upper(df.columns[i])]]

----------------------------------------------------------------------------
(* The two sources *)

MissingFile == [exists |-> FALSE, header |-> <<>>, rows |-> <<>>]

ValueHeaders ==
    { <<"COUNTRY_ID", "INDICATOR_ID", "YEAR", "VALUE">>,
      <<"country_id", "indicator_id", "year", "value">>,
      <<"INDICATOR_ID", "YEAR", "VALUE">>,
      <<"COUNTRY_ID", "YEAR", "VALUE">> }

LabelHeaders ==
    { <<"INDICATOR_ID", "INDICATOR_LABEL_EN">>,
      <<"indicator_id", "indicator_label_en">>,
      <<"INDICATOR_LABEL_EN">> }

YearTexts == { <<"2", "0", "1", "5">>, <<"a", "b", "c">> }

\* The cells a source may hold in a column
CellDomain(name) ==
    CASE Upper(name) = "COUNTRY_ID" -> {"ETH", "NGA"}
      [] Upper(name) = "INDICATOR_ID" -> {"LR.AG15T99", "CR.1"}
      [] Upper(name) = "YEAR" -> {Str(s) : s \in YearTexts}
      [] Upper(name) = "VALUE" -> {45}
      [] OTHER -> {"Adult literacy rate"}

RECURSIVE RowsFor(_)
RowsFor(h) ==
    IF h = <<>> THEN {<<>>}
    ELSE {<<c>> \o r : c \in CellDomain(Head(h)), r \in RowsFor(Tail(h))}

SeqsUpTo(S, n) == UNION {[1..k -> S] : k \in 0..n}

FilesWith(headers, n) ==
    {MissingFile} \cup
    UNION { {[exists |-> TRUE, header |-> h, rows |-> rs] : rs \in SeqsUpTo(RowsFor(h), n)}
            : h \in headers }

ValueFiles == FilesWith(ValueHeaders, MaxValueRows)

LabelFiles == FilesWith(LabelHeaders, MaxLabelRows)

\* The sources of the runs that visit every view: a values source with or without
\* its country column, or none, and a label source that labels one indicator.
ViewValueFiles ==
    FilesWith({ <<"COUNTRY_ID", "INDICATOR_ID", "YEAR", "VALUE">>,
                <<"INDICATOR_ID", "YEAR", "VALUE">> }, MaxValueRows)

ViewLabelFiles ==
    { [exists |-> TRUE, header |-> <<"INDICATOR_ID", "INDICATOR_LABEL_EN">>,
       rows |-> << <<"LR.AG15T99", "Adult literacy rate">> >>] }

----------------------------------------------------------------------------
(* load_data *)

Raise(e) == [ok |-> FALSE, err |-> e, val |-> EmptyFrame]

Return(df) == [ok |-> TRUE, err |-> "", val |-> df]

\* read_csv's dtype inference on a column of numerals: integers when every cell
\* parses, the texts as read otherwise.
InferColumn(rows, i) ==
    IF \A r \in 1..Len(rows) : IsNumericText(rows[r][i].s)
    THEN [r \in 1..Len(rows) |-> [rows[r] EXCEPT ![i] = ToNumericCell(@)]]
    ELSE rows

RECURSIVE InferFrom(_, _, _)
InferFrom(header, rows, i) ==
    IF i > Len(header) THEN rows
    ELSE InferFrom(header,
                   IF Upper(header[i]) = "YEAR" THEN InferColumn(rows, i) ELSE rows,
                   i + 1)

\* pd.read_csv(path)
read_csv(file) ==
    IF ~file.exists THEN Raise("FileNotFoundError")
    ELSE Return([columns |-> file.header, rows |-> InferFrom(file.header, file.rows, 1)])

\* The columns of the right frame other than the key, in order
RECURSIVE OtherIndexes(_, _, _)
OtherIndexes(cols, key, i) ==
    IF i > Len(cols) THEN <<>>
    ELSE (IF cols[i] = key THEN <<>> ELSE <<i>>) \o OtherIndexes(cols, key, i + 1)

Project(row, idx) == [k \in 1..Len(idx) |-> row[idx[k]]]

\* The rows a left row becomes in a left join: one per matching right row in the
\* right frame's order, or one padded with missing values when none matches.
RECURSIVE MatchesFrom(_, _, _, _, _)
MatchesFrom(lrow, lkey, right, idx, j) ==
    IF j > Len(right.rows) THEN <<>>
    ELSE (IF Cell(right, j, "INDICATOR_ID") = lkey
          THEN <<lrow \o Project(right.rows[j], idx)>>
          ELSE <<>>) \o MatchesFrom(lrow, lkey, right, idx, j + 1)

JoinRow(left, i, right, idx) ==
    LET m == MatchesFrom(left.rows[i], Cell(left, i, "INDICATOR_ID"), right, idx, 1)
    IN  IF m = <<>> THEN <<left.rows[i] \o [k \in 1..Len(idx) |-> NA]>> ELSE m

RECURSIVE JoinFrom(_, _, _, _)
JoinFrom(left, right, idx, i) ==
    IF i > Len(left.rows) THEN <<>>
    ELSE JoinRow(left, i, right, idx) \o JoinFrom(left, right, idx, i + 1)

\* left.merge(right, on="INDICATOR_ID", how="left")
merge(left, right) ==
    IF ~HasColumn(left, "INDICATOR_ID") \/ ~HasColumn(right, "INDICATOR_ID")
    THEN Raise("KeyError")
    ELSE LET idx == OtherIndexes(right.columns, "INDICATOR_ID", 1)
         IN  Return([columns |-> left.columns \o Project(right.columns, idx),
                     rows |-> JoinFrom(left, right, idx, 1)])

\* The body of load_data
load_data_body(vf, lf) ==
    LET national_data == read_csv(vf)
        labels == read_csv(lf)
    IN  IF ~national_data.ok THEN national_data
        ELSE IF ~labels.ok THEN labels
        ELSE merge(UpperColumns(national_data.val), UpperColumns(labels.val))

NoCache == [set |-> FALSE, val |-> EmptyFrame]

\* A load_data() call without memoization: the body runs on every call.
load_data_uncached(c, vf, lf) ==
    LET r == load_data_body(vf, lf)
    IN  [ok |-> r.ok, err |-> r.err, val |-> r.val, ran |-> TRUE,
         cache |-> IF r.ok THEN [set |-> TRUE, val |-> r.val] ELSE c]

\* A load_data() call under @st.cache_data: a stored value is handed out as a copy
\* without running the body; a value the body returns is stored; an exception is
\* not.
load_data(c, vf, lf) ==
    IF c.set
    THEN [ok |-> TRUE, err |-> "", val |-> c.val, ran |-> FALSE, cache |-> c]
    ELSE LET r == load_data_body(vf, lf)
         IN  [ok |-> r.ok, err |-> r.err, val |-> r.val, ran |-> TRUE,
              cache |-> IF r.ok THEN [set |-> TRUE, val |-> r.val] ELSE c]

----------------------------------------------------------------------------
(* The catalogs *)

SUB_SAHARAN == <<"ETH", "NGA", "KEN", "TZA", "GHA", "UGA", "ZAF", "RWA", "SEN", "COD", "CMR", "MLI">>

SOUTH_AMERICA == <<"BRA", "ARG", "CHL", "PER", "COL", "ECU", "BOL", "URY", "PRY", "VEN">>

Regions == {"Sub-Saharan Africa", "South America"}

IndicatorLabels ==
    {"Primary Completion (CR.1)", "Lower Secondary Completion (CR.2)",
     "Adult Literacy Rate (LR.AG15T99)"}

\* indicator_options[label]
indicator_options(label) ==
    CASE label = "Primary Completion (CR.1)" -> [ok |-> TRUE, err |-> "", val |-> "CR.1"]
      [] label = "Lower Secondary Completion (CR.2)" -> [ok |-> TRUE, err |-> "", val |-> "CR.2"]
      [] label = "Adult Literacy Rate (LR.AG15T99)" -> [ok |-> TRUE, err |-> "", val |-> "LR.AG15T99"]
      [] OTHER -> [ok |-> FALSE, err |-> "KeyError", val |-> ""]

\* The if/else that maps the chosen region to its country list
region_countries(name) ==
    IF name = "Sub-Saharan Africa"
    THEN [ok |-> TRUE, err |-> "", val |-> SUB_SAHARAN]
    ELSE [ok |-> TRUE, err |-> "", val |-> SOUTH_AMERICA]

Elems(s) == {s[i] : i \in 1..Len(s)}

\* What a multiselect over the options can hand back, the options cut to the
\* first PickWidth
Choices(options) == SUBSET {options[i] : i \in 1..PickWidth}

----------------------------------------------------------------------------
(* filter_by_countries_indicator *)

RECURSIVE KeepFrom(_, _, _, _)
KeepFrom(df, countries, code, i) ==
    IF i > Len(df.rows) THEN <<>>
    ELSE (IF Cell(df, i, "COUNTRY_ID") \in countries /\ Cell(df, i, "INDICATOR_ID") = code
          THEN <<df.rows[i]>>
          ELSE <<>>) \o KeepFrom(df, countries, code, i + 1)

RECURSIVE KeepIndicatorFrom(_, _, _)
KeepIndicatorFrom(df, code, i) ==
    IF i > Len(df.rows) THEN <<>>
    ELSE (IF Cell(df, i, "INDICATOR_ID") = code THEN <<df.rows[i]>> ELSE <<>>)
         \o KeepIndicatorFrom(df, code, i + 1)

\* The filter with the country test lost
filter_indicator_only(df, countries, indicator) ==
    IF ~HasColumn(df, "COUNTRY_ID") \/ ~HasColumn(df, "INDICATOR_ID")
    THEN [ok |-> FALSE, err |-> "KeyError", df |-> df, out |-> EmptyFrame]
    ELSE [ok |-> TRUE, err |-> "", df |-> df,
          out |-> [columns |-> df.columns, rows |-> KeepIndicatorFrom(df, indicator, 1)]]

\* The filter done in place: the frame passed in is narrowed too
filter_in_place(df, countries, indicator) ==
    IF ~HasColumn(df, "COUNTRY_ID") \/ ~HasColumn(df, "INDICATOR_ID")
    THEN [ok |-> FALSE, err |-> "KeyError", df |-> df, out |-> EmptyFrame]
    ELSE LET kept == [columns |-> df.columns, rows |-> KeepFrom(df, countries, indicator, 1)]
         IN  [ok |-> TRUE, err |-> "", df |-> kept, out |-> kept]

\* df[(df["COUNTRY_ID"].isin(countries)) & (df["INDICATOR_ID"] == indicator_code)].copy()
\* df is the frame passed in as the call leaves it, out the frame returned.
filter_by_countries_indicator(df, countries, indicator) ==
    IF ~HasColumn(df, "COUNTRY_ID") \/ ~HasColumn(df, "INDICATOR_ID")
    THEN [ok |-> FALSE, err |-> "KeyError", df |-> df, out |-> EmptyFrame]
    ELSE [ok |-> TRUE, err |-> "", df |-> df,
          out |-> [columns |-> df.columns, rows |-> KeepFrom(df, countries, indicator, 1)]]

----------------------------------------------------------------------------
(* Charts *)

TARGET == 90

RangeButtons ==
    << [count |-> 5, label |-> "Last 5y", step |-> "year", stepmode |-> "backward"],
       [count |-> 10, label |-> "Last 10y", step |-> "year", stepmode |-> "backward"],
       [label |-> "All", step |-> "all"] >>

NoFig == [kind |-> "none", title |-> "", shapes |-> <<>>, annotations |-> <<>>,
          buttons |-> <<>>]

\* df["YEAR"] = pd.to_numeric(df["YEAR"], errors="coerce")
CoerceYear(df) ==
    LET y == ColIndex(df, "YEAR")
    IN  [df EXCEPT !.rows = [r \in 1..Len(df.rows) |->
                                [df.rows[r] EXCEPT ![y] = ToNumericCell(@)]]]

NumbersOf(df, name) ==
    {Cell(df, r, name).n : r \in {q \in 1..Len(df.rows) : Cell(df, q, name).t = "num"}}

\* Series.min() and Series.max(): missing values are skipped, and the result is
\* missing when nothing is left.
ColMin(df, name) ==
    LET N == NumbersOf(df, name)
    IN  IF N = {} THEN NaN ELSE Num(CHOOSE m \in N : \A k \in N : m <= k)

ColMax(df, name) ==
    LET N == NumbersOf(df, name)
    IN  IF N = {} THEN NaN ELSE Num(CHOOSE m \in N : \A k \in N : m >= k)

\* px.line(...) and the range selector and slider
LineChart(title) ==
    [kind |-> "line", title |-> title, shapes |-> <<>>, annotations |-> <<>>,
     buttons |-> RangeButtons]

\* The trend chart with the shape drawn from the last year back to the first
plot_trend_reversed(df, chosen_countries) ==
    LET d == CoerceYear(df)
    IN  [df |-> d,
         fig |-> [LineChart("Trend: Adult Literacy Rate (15+)") EXCEPT
                     !.shapes = << [type |-> "line", x0 |-> ColMax(d, "YEAR"),
                                    x1 |-> ColMin(d, "YEAR"), y0 |-> TARGET, y1 |-> TARGET] >>,
                     !.annotations = << [x |-> ColMin(d, "YEAR"), y |-> TARGET,
                                         text |-> "90% target"] >>]]

\* plot_adult_literacy_trend(df, chosen_countries): df is the frame passed in as
\* the call leaves it, fig the figure returned.
plot_adult_literacy_trend(df, chosen_countries) ==
    LET d == CoerceYear(df)
        min_year == ColMin(d, "YEAR")
        max_year == ColMax(d, "YEAR")
    IN  [df |-> d,
         fig |-> [LineChart("Trend: Adult Literacy Rate (15+)") EXCEPT
                     !.shapes = << [type |-> "line", x0 |-> min_year, x1 |-> max_year,
                                    y0 |-> TARGET, y1 |-> TARGET] >>,
                     !.annotations = << [x |-> max_year, y |-> TARGET,
                                         text |-> "90% target"] >>]]

\* generate_wordcloud(df): the labels present, joined; the renderer refuses a text
\* without a word.
generate_wordcloud(df) ==
    IF ~HasColumn(df, "INDICATOR_LABEL_EN") THEN "KeyError"
    ELSE IF \A r \in 1..Len(df.rows) : Cell(df, r, "INDICATOR_LABEL_EN") = NA
         THEN "ValueError"
         ELSE ""

----------------------------------------------------------------------------
(* main(): one script run per user interaction *)

NoTable == [set |-> FALSE, val |-> EmptyFrame]

\* A run may start while the load is served from the cache or the body may still
\* be run.
CanRun == IF cache.set THEN TRUE ELSE bodyRuns < MaxBodyRuns

\* data_merged = load_data(), and what the call leaves behind
Loads(r) ==
    /\ cache' = r.cache
    /\ bodyRuns' = bodyRuns + (IF r.ran THEN 1 ELSE 0)
    /\ loaded' = loaded + (IF r.ran /\ r.ok THEN 1 ELSE 0)
    /\ served' = ~r.ran
    /\ firstTable' = IF r.ok /\ ~firstTable.set THEN [set |-> TRUE, val |-> r.val]
                     ELSE firstTable

\* The run ends in an uncaught exception: nothing after the raise is shown.
Fails(e, table) ==
    /\ outcome' = "error"
    /\ err' = e
    /\ data_merged' = table
    /\ plot_input' = EmptyFrame
    /\ df_filtered' = EmptyFrame
    /\ fig' = NoFig

\* The run ends having shown `what`.
Shows(what, table, passed, frame, figure) ==
    /\ outcome' = what
    /\ err' = ""
    /\ data_merged' = table
    /\ plot_input' = passed
    /\ df_filtered' = frame
    /\ fig' = figure

RunWordCloud ==
    /\ CanRun
    /\ LET r == load_data(cache, valuesFile, labelsFile)
           e == generate_wordcloud(r.val)
       IN  /\ Loads(r)
           /\ section' = "Word Cloud"
           /\ region_choice' = ""
           /\ indicator_label' = ""
           /\ indicator_code' = ""
           /\ chosen' = {}
           /\ IF ~r.ok THEN Fails(r.err, EmptyFrame)
              ELSE IF e # "" THEN Fails(e, r.val)
              ELSE Shows("wordcloud", r.val, EmptyFrame, EmptyFrame, NoFig)
    /\ UNCHANGED <<valuesFile, labelsFile>>

\* The branch with the empty-result test lost: a chart is built from whatever the
\* filter returned.
ViewWithoutEmptyTest(table, countries, code, title, trend) ==
    IF countries = {} THEN Shows("warning", table, EmptyFrame, EmptyFrame, NoFig)
    ELSE LET f == filter_by_countries_indicator(table, countries, code)
         IN  IF ~f.ok THEN Fails(f.err, f.df)
             ELSE Shows("chart", f.df, f.out, CoerceYear(f.out), LineChart(title))

\* The branch both chart views share from the multiselect on: the warning, the
\* filter, the notice or the chart.  `trend` tells the literacy view, whose chart
\* is built by plot_adult_literacy_trend, from the comparison view, whose chart is
\* built inline.
View(table, countries, code, title, trend) ==
    IF countries = {} THEN Shows("warning", table, EmptyFrame, EmptyFrame, NoFig)
    ELSE LET f == filter_by_countries_indicator(table, countries, code)
         IN  IF ~f.ok THEN Fails(f.err, f.df)
             ELSE IF f.out.rows = <<>> THEN Shows("nodata", f.df, EmptyFrame, f.out, NoFig)
             ELSE IF trend
                  THEN LET p == plot_adult_literacy_trend(f.out, countries)
                       IN  Shows("chart", f.df, f.out, p.df, p.fig)
                  ELSE Shows("chart", f.df, f.out, CoerceYear(f.out), LineChart(title))

RunRegionalComparison ==
    /\ CanRun
    /\ \E region \in Regions, label \in IndicatorLabels :
         \E picked \in Choices(region_countries(region).val) :
           LET r == load_data(cache, valuesFile, labelsFile)
               code == indicator_options(label).val
           IN  /\ Loads(r)
               /\ section' = "Regional Comparison"
               /\ region_choice' = IF r.ok THEN region ELSE ""
               /\ indicator_label' = IF r.ok THEN label ELSE ""
               /\ indicator_code' = IF r.ok THEN code ELSE ""
               /\ chosen' = IF r.ok THEN picked ELSE {}
               /\ IF ~r.ok THEN Fails(r.err, EmptyFrame)
                  ELSE View(r.val, picked, code, label \o " Over Time", FALSE)
    /\ UNCHANGED <<valuesFile, labelsFile>>

RunLiteracyTrend ==
    /\ CanRun
    /\ \E picked \in Choices(SUB_SAHARAN) :
         LET r == load_data(cache, valuesFile, labelsFile)
         IN  /\ Loads(r)
             /\ section' = "Adult Literacy Trend"
             /\ region_choice' = ""
             /\ indicator_label' = ""
             /\ indicator_code' = IF r.ok /\ picked # {} THEN "LR.AG15T99" ELSE ""
             /\ chosen' = IF r.ok THEN picked ELSE {}
             /\ IF ~r.ok THEN Fails(r.err, EmptyFrame)
                ELSE View(r.val, picked, "LR.AG15T99", "", TRUE)
    /\ UNCHANGED <<valuesFile, labelsFile>>

Idle ==
    /\ cache = NoCache
    /\ bodyRuns = 0
    /\ loaded = 0
    /\ served = FALSE
    /\ firstTable = NoTable
    /\ data_merged = EmptyFrame
    /\ section = ""
    /\ indicator_code = ""
    /\ chosen = {}
    /\ plot_input = EmptyFrame
    /\ df_filtered = EmptyFrame
    /\ fig = NoFig
    /\ outcome = "none"
    /\ err = ""

Init ==
    /\ valuesFile \in ViewValueFiles
    /\ labelsFile \in ViewLabelFiles
    /\ region_choice = ""
    /\ indicator_label = ""
    /\ Idle

Next == RunWordCloud \/ RunRegionalComparison \/ RunLiteracyTrend

Spec == Init /\ [][Next]_vars

\* The dashboard left on its first section, over every content of the two sources
InitLoad ==
    /\ valuesFile \in ValueFiles
    /\ labelsFile \in LabelFiles
    /\ region_choice = ""
    /\ indicator_label = ""
    /\ Idle

NextLoad == RunWordCloud

SpecLoad == InitLoad /\ [][NextLoad]_vars

----------------------------------------------------------------------------
(* plot_adult_literacy_trend over the series a filter can hand it *)

MergedColumns == <<"COUNTRY_ID", "INDICATOR_ID", "YEAR", "VALUE", "INDICATOR_LABEL_EN">>

SeriesYearTexts == { <<"2", "0", "1", "5">>, <<"2", "0", "2", "0">>, <<"a", "b", "c">> }

SeriesRows ==
    { <<c, "LR.AG15T99", Str(y), 45, "Adult literacy rate">> :
        c \in {"ETH", "KEN"}, y \in SeriesYearTexts }

\* A non-empty literacy series, its years as texts or, when all of them are
\* numerals, as the integers read_csv made of them.
SeriesFrames ==
    LET texts == {rs \in SeqsUpTo(SeriesRows, MaxSeriesRows) : rs # <<>>}
    IN  {[columns |-> MergedColumns, rows |-> rs] : rs \in texts}
        \cup {[columns |-> MergedColumns, rows |-> InferFrom(MergedColumns, rs, 1)] : rs \in texts}

InitTrend ==
    /\ valuesFile = MissingFile
    /\ labelsFile = MissingFile
    /\ cache = NoCache
    /\ bodyRuns = 0
    /\ loaded = 0
    /\ served = FALSE
    /\ firstTable = NoTable
    /\ data_merged = EmptyFrame
    /\ section = "Adult Literacy Trend"
    /\ region_choice = ""
    /\ indicator_label = ""
    /\ indicator_code = "LR.AG15T99"
    /\ chosen = {"ETH", "KEN"}
    /\ plot_input \in SeriesFrames
    /\ df_filtered = EmptyFrame
    /\ fig = NoFig
    /\ outcome = "none"
    /\ err = ""

PlotTrend ==
    /\ outcome = "none"
    /\ LET p == plot_adult_literacy_trend(plot_input, chosen)
       IN  /\ df_filtered' = p.df
           /\ fig' = p.fig
           /\ outcome' = "chart"
    /\ UNCHANGED <<valuesFile, labelsFile, cache, bodyRuns, loaded, served, firstTable, data_merged,
                   section, region_choice, indicator_label, indicator_code, chosen,
                   plot_input, err>>

NextTrend == PlotTrend

SpecTrend == InitTrend /\ [][NextTrend]_vars

----------------------------------------------------------------------------
(* The catalog lookups over names inside and outside the enumerated sets *)

RegionNames ==
    Regions \cup {"Atlantis", "Europe", "sub-saharan africa", ""}

LabelNames ==
    IndicatorLabels \cup {"Adult Literacy Rate", "CR.1", ""}

InitCatalog ==
    /\ valuesFile = MissingFile
    /\ labelsFile = MissingFile
    /\ region_choice \in RegionNames
    /\ indicator_label \in LabelNames
    /\ Idle

LookupRegion ==
    /\ outcome = "none"
    /\ LET r == region_countries(region_choice)
       IN  /\ chosen' = IF r.ok THEN Elems(r.val) ELSE {}
           /\ err' = r.err
           /\ outcome' = "region"
    /\ UNCHANGED <<valuesFile, labelsFile, cache, bodyRuns, loaded, served, firstTable, data_merged,
                   section, region_choice, indicator_label, indicator_code,
                   plot_input, df_filtered, fig>>

LookupIndicator ==
    /\ outcome = "none"
    /\ LET r == indicator_options(indicator_label)
       IN  /\ indicator_code' = r.val
           /\ err' = r.err
           /\ outcome' = "indicator"
    /\ UNCHANGED <<valuesFile, labelsFile, cache, bodyRuns, loaded, served, firstTable, data_merged,
                   section, region_choice, indicator_label, chosen,
                   plot_input, df_filtered, fig>>

NextCatalog == LookupRegion \/ LookupIndicator

SpecCatalog == InitCatalog /\ [][NextCatalog]_vars

----------------------------------------------------------------------------
(* Properties *)

ChartViews == {"Regional Comparison", "Adult Literacy Trend"}

\* The frame the filter returned in the last run
FilterResult == IF outcome = "chart" THEN plot_input ELSE df_filtered

\* The filter predicate on row r of a frame that has both columns
Matches(df, r) ==
    /\ Cell(df, r, "COUNTRY_ID") \in chosen
    /\ Cell(df, r, "INDICATOR_ID") = indicator_code

Count(df, row) == Cardinality({r \in 1..Len(df.rows) : df.rows[r] = row})

\* C1: whenever the filter has returned, every row it returned has its country in
\* the chosen set and the chosen indicator, every row of the table with both
\* properties is in the result as many times as in the table, and the result has
\* no more rows than the table.
C1_FilterExact ==
    (section \in ChartViews /\ outcome \in {"nodata", "chart"}) =>
        LET T == firstTable.val
            out == FilterResult
        IN  /\ \A r \in 1..Len(out.rows) : Matches(out, r)
            /\ \A r \in 1..Len(T.rows) :
                 Matches(T, r) => Count(out, T.rows[r]) = Count(T, T.rows[r])
            /\ \A r \in 1..Len(out.rows) : Count(out, out.rows[r]) = Count(T, out.rows[r])
            /\ Len(out.rows) <= Len(T.rows)

\* A run whose filter kept one row of the table and dropped another
C1_Witness ==
    /\ section \in ChartViews
    /\ outcome = "chart"
    /\ Len(plot_input.rows) >= 1
    /\ Len(plot_input.rows) < Len(firstTable.val.rows)

\* C2: the table load_data returned has as many rows as the values source.
C2_LeftJoinRowCount ==
    firstTable.set => Len(firstTable.val.rows) = Len(valuesFile.rows)

\* C3: when the table has the filter's columns and no row of it matches a
\* non-empty selection, the run raises nothing, shows the no-data notice and
\* builds no chart.
C3_NoMatchIsNoData ==
    ( /\ section \in ChartViews
      /\ firstTable.set
      /\ chosen # {}
      /\ HasColumn(firstTable.val, "COUNTRY_ID")
      /\ \A r \in 1..Len(firstTable.val.rows) : ~Matches(firstTable.val, r) )
    => /\ outcome = "nodata"
       /\ err = ""
       /\ df_filtered.rows = <<>>
       /\ fig = NoFig

\* A run that filtered a non-empty table by an indicator code it does not hold
C3_Witness ==
    /\ section = "Regional Comparison"
    /\ indicator_code = "CR.2"
    /\ chosen # {}
    /\ firstTable.val.rows # <<>>
    /\ HasColumn(firstTable.val, "COUNTRY_ID")
    /\ outcome = "nodata"

YearOf(c) ==
    CASE c.t = "num" -> {c.n}
      [] c.t = "str" /\ c.s = <<"2", "0", "1", "5">> -> {2015}
      [] c.t = "str" /\ c.s = <<"2", "0", "2", "0">> -> {2020}
      [] OTHER -> {}

ValidYears(df) == UNION {YearOf(Cell(df, r, "YEAR")) : r \in 1..Len(df.rows)}

\* C5: when no year of the series passed to the trend chart is a number, the chart
\* is built with every year missing and carries neither the target line nor its
\* annotation.
C5_NoYearsNoOverlay ==
    (outcome = "chart" /\ ValidYears(plot_input) = {}) =>
        /\ \A r \in 1..Len(df_filtered.rows) : Cell(df_filtered, r, "YEAR") = NaN
        /\ fig.kind = "line"
        /\ fig.shapes = <<>>
        /\ fig.annotations = <<>>

\* C6: when some year of the series is a number, the trend chart carries one line
\* from (least year, target) to (greatest year, target) and one annotation
\* "<target>% target" at (greatest year, target); for the years 2015, 2020, 2020
\* the line runs from 2015 to 2020 at 90 and is labelled "90% target".
C6_TargetOverlay ==
    (outcome = "chart" /\ ValidYears(plot_input) # {}) =>
        LET Y == ValidYears(plot_input)
            lo == CHOOSE m \in Y : \A k \in Y : m <= k
            hi == CHOOSE m \in Y : \A k \in Y : m >= k
        IN  /\ fig.shapes = << [type |-> "line", x0 |-> Num(lo), x1 |-> Num(hi),
                                y0 |-> TARGET, y1 |-> TARGET] >>
            /\ fig.annotations = << [x |-> Num(hi), y |-> TARGET,
                                     text |-> ToString(TARGET) \o "% target"] >>
            /\ [r \in 1..Len(plot_input.rows) |-> Cell(plot_input, r, "YEAR")]
                   \in { <<Num(2015), Num(2020), Num(2020)>>,
                         <<Str(<<"2", "0", "1", "5">>), Str(<<"2", "0", "2", "0">>),
                           Str(<<"2", "0", "2", "0">>)>> }
               => /\ fig.shapes[1].x0 = Num(2015)
                  /\ fig.shapes[1].x1 = Num(2020)
                  /\ fig.shapes[1].y0 = 90
                  /\ fig.annotations[1].text = "90% target"

\* The trend chart built from the years 2015, 2020, 2020
C6_Witness ==
    /\ outcome = "chart"
    /\ Len(plot_input.rows) = 3
    /\ [r \in 1..3 |-> Cell(plot_input, r, "YEAR")] = <<Num(2015), Num(2020), Num(2020)>>
    /\ Len(fig.shapes) = 1

\* C7: the body of load_data completes at most once, and once a call has returned
\* a table the sources have been read once and the stored table, which every
\* later call hands out, is the one the first call returned.
C7_LoadOnce ==
    /\ loaded <= 1
    /\ firstTable.set => /\ bodyRuns = 1
                         /\ loaded = 1
                         /\ cache.set
                         /\ cache.val = firstTable.val

\* A later run served from the cache
C7_Witness ==
    /\ served
    /\ firstTable.set
    /\ section = "Adult Literacy Trend"
    /\ outcome = "chart"
    /\ bodyRuns = 1

HasAnyCase(file, name) == \E i \in 1..Len(file.header) : Upper(file.header[i]) = name

\* A source is missing or lacks a required column
BadSources ==
    \/ ~valuesFile.exists
    \/ ~labelsFile.exists
    \/ ~HasAnyCase(valuesFile, "COUNTRY_ID")
    \/ ~HasAnyCase(valuesFile, "INDICATOR_ID")
    \/ ~HasAnyCase(labelsFile, "INDICATOR_ID")

\* C8: with a source missing or lacking a required column, every run ends in the
\* load's failure: no table is returned or stored and no view is shown.
C8_BadSourcesAreFatal ==
    (BadSources /\ outcome # "none") =>
        /\ outcome = "error"
        /\ ~firstTable.set
        /\ ~cache.set
        /\ data_merged = EmptyFrame

\* C9: after every run the stored table and the run's own table are the table
\* the first load returned, and a chart's coerced years are those of the filtered
\* copy alone.
C9_TableReadOnly ==
    firstTable.set =>
        /\ cache.val = firstTable.val
        /\ data_merged = firstTable.val
        /\ outcome = "chart" => df_filtered = CoerceYear(plot_input)

\* A chart run whose coercion changed the filtered copy of part of the table
C9_Witness ==
    /\ outcome = "chart"
    /\ df_filtered # plot_input
    /\ Len(plot_input.rows) < Len(data_merged.rows)
    /\ data_merged = firstTable.val

\* C10: a run of a chart view over a loaded table ends in the warning exactly when
\* no country is chosen, in the no-data notice exactly when countries are chosen
\* and the filter result is empty, and in a chart exactly when the result is not
\* empty; a chart is never built otherwise.
C10_ThreeOutcomes ==
    (section \in ChartViews /\ firstTable.set) =>
        /\ outcome \in {"warning", "nodata", "chart"}
        /\ outcome = "warning" <=> chosen = {}
        /\ outcome = "nodata" => (df_filtered.rows = <<>> /\ fig = NoFig)
        /\ outcome = "chart" => (plot_input.rows # <<>> /\ fig.kind = "line")
        /\ fig.kind = "line" => outcome = "chart"

====
